---- MODULE Spec2Model ----
(***************************************************************************)
(* The generate-video request handler (src/src/app/api/generate-video/     *)
(* route.py): one run of handler.do_POST per request, stepping through     *)
(* request parsing, validation, the try block's stages, the except block   *)
(* and the finally block.  Every remote call and every write to the client *)
(* either returns or raises.                                               *)
(* The echo endpoint (src/api/python/index.py) is a second handler with    *)
(* its own request, locals and connection.                                 *)
(***************************************************************************)
EXTENDS Integers, Sequences, FiniteSets, TLC

\* ---------------------------------------------------------------- bounds
\* How many runs of do_POST there can be, each with its own handler object
\* and locals; runs are numbered in the order their requests arrive.
MaxRuns == 2

\* How many requests arrive under Spec, one after another; under ConcSpec
\* every run gets one and the runs overlap.
MaxRequests == 1

Runs == 1..MaxRuns

\* ---------------------------------------------------------------- values
None == "<None>"          \* Python's None
Missing == "<missing>"    \* a key the JSON object does not hold
NoSandbox == 0            \* sandbox = None (line 52); handles are 1, 2, ...
Unbound == <<"<unbound>">> \* a local of the try block before its line binds it

\* What os.environ.get can return for a credential: unset, empty, a key.
EnvValues == {None, "", "key"}

\* Field values of the JSON object of a request.
FieldValues == {Missing, "", "E=mc^2"}

\* A request: whether it carries a Content-Length header, and its body.
\* kind "empty" is a zero-length body, "malformed" is not JSON, "array" is
\* JSON that is not an object, "object" is a JSON object with the fields.
Requests ==
    {[hasLen |-> FALSE, kind |-> "empty", latex |-> Missing, explanations |-> Missing]}
    \cup {[hasLen |-> TRUE, kind |-> k, latex |-> Missing, explanations |-> Missing] :
              k \in {"empty", "malformed", "array"}}
    \cup {[hasLen |-> TRUE, kind |-> "object", latex |-> l, explanations |-> x] :
              l \in FieldValues, x \in FieldValues}

NoRequest == [hasLen |-> FALSE, kind |-> "none", latex |-> Missing, explanations |-> Missing]

\* Texts the model can answer with, as token sequences; "<fence>" stands
\* for the three-backtick markdown fence.
Fence == "<fence>"
PyFence == "<fence>python"
RawTexts ==
    { <<PyFence, "\n", "code", "\n", Fence>>,
      <<"code">>,
      <<PyFence, "\n", Fence>>,
      <<>> }

\* What sandbox.process.exec returns: exit code and captured output.
ExecResponses ==
    {[exit_code |-> 0, result |-> "ok"]}
    \cup {[exit_code |-> 1, result |-> o] : o \in {"err A", "err B"}}

\* What uuid.uuid4() returns; the code treats every value alike.
Uuids == {"u1"}

\* What sandbox.fs.download_file returns.
Videos == {"mp4 A", "mp4 B"}

\* ---------------------------------------------------------------- echo values
\* A JSON value: a string, a number or null.
JsonStr(v) == [t |-> "str", v |-> v]
JsonNum(v) == [t |-> "num", v |-> v]
JsonNull == [t |-> "null", v |-> "null"]
JsonAbsent == [t |-> "absent", v |-> ""]

\* What the "expression" key of a posted object can hold, or not be there.
Expressions == {JsonAbsent, JsonStr(""), JsonStr("x+1"), JsonNull, JsonNum("7")}

\* Bodies posted to the echo endpoint: nothing, bytes that are not UTF-8,
\* text that is not JSON, a JSON array, a JSON object.
EchoBody(kind, x) == [kind |-> kind, expression |-> x]
EmptyBody == EchoBody("empty", JsonAbsent)
EchoBodies ==
    {EchoBody(k, JsonAbsent) : k \in {"empty", "nonutf8", "malformed", "array"}}
    \cup {EchoBody("object", x) : x \in Expressions}

\* The Content-Length header of a request: not sent, "0", the body's
\* length (here "n"), or not a number.
EchoRequests ==
    {[len |-> l, body |-> b] : l \in {Missing, "0", "abc"}, b \in EchoBodies}
    \cup {[len |-> "n", body |-> b] : b \in EchoBodies \ {EmptyBody}}

NoEchoRequest == [len |-> Missing, body |-> EchoBody("none", JsonAbsent)]

VARIABLES
    DAYTONA_API_KEY, GEMINI_API_KEY,   \* module globals (lines 9-10)
    issued, removed,                   \* the sandbox provider: handles created, handles removed
    pc, req,                           \* per run: position in do_POST, the request
    latex_equation, explanations,      \* per run: locals of do_POST
    sandbox, manim_script_content, script_filename, video_content,
    e, raised,                         \* per run: the exception caught by except; the one leaving do_POST
    wire,                              \* per run: what reached the client, in order
    log                                \* per run: the remote calls made, in order

\* The echo endpoint's do_POST (src/api/python/index.py).
VARIABLES
    echo_pc, echo_req,                 \* position in do_POST, the request
    content_length, raw_body,          \* locals of do_POST (lines 28-29)
    payload, expression,               \* locals of do_POST (lines 36 and 41)
    status_code, body,                 \* _send_json's status and serialised payload
    echo_wire,                         \* what reached the client, in order
    echo_raised                        \* the exception that left do_POST

vars == <<DAYTONA_API_KEY, GEMINI_API_KEY, issued, removed, pc, req,
          latex_equation, explanations, sandbox, manim_script_content,
          script_filename, video_content, e, raised, wire, log,
          echo_pc, echo_req, content_length, raw_body, payload, expression,
          status_code, body, echo_wire, echo_raised>>

echo == <<echo_pc, echo_req, content_length, raw_body, payload, expression,
          status_code, body, echo_wire, echo_raised>>

\* ---------------------------------------------------------------- helpers
\* Python truthiness of the values line 43 tests.
Truthy(v) == v # None /\ v # ""

\* Line 43 testing only the two request fields, not the credentials.
AllTruthy_FieldsOnly(vals) == \A i \in 1..2 : Truthy(vals[i])

\* all([...]) of line 43.
AllTruthy(vals) == \A i \in 1..Len(vals) : Truthy(vals[i])

\* dict.get(key): None when the key is absent (lines 40-41).
DictGet(v) == IF v = Missing THEN None ELSE v

\* str.replace(tok, "") on a token sequence.
RECURSIVE Remove(_, _)
Remove(s, tok) ==
    IF s = <<>> THEN <<>>
    ELSE IF Head(s) = tok THEN Remove(Tail(s), tok)
         ELSE <<Head(s)>> \o Remove(Tail(s), tok)

\* str.strip(): drop leading and trailing whitespace tokens.
RECURSIVE LStrip(_)
LStrip(s) ==
    IF s # <<>> /\ Head(s) = "\n" THEN LStrip(Tail(s)) ELSE s

RECURSIVE RStrip(_)
RStrip(s) ==
    IF s # <<>> /\ s[Len(s)] = "\n" THEN RStrip(SubSeq(s, 1, Len(s) - 1)) ELSE s

\* Line 32: response.text with both fence markers replaced by "" and stripped.
ExtractCode(text) == RStrip(LStrip(Remove(Remove(text, PyFence), Fence)))

\* json.dumps({'error': msg}) of lines 47 and 94.
JsonDumpsError(msg) == "{\"error\": \"" \o msg \o "\"}"

\* What reaches the client: a flushed status line with headers, or a body.
HeadItem(status, ctype) == [k |-> "head", status |-> status, ctype |-> ctype, data |-> ""]
BodyItem(data) == [k |-> "body", status |-> 0, ctype |-> "", data |-> data]

\* One remote call, as logged: operation, its argument (a command or a
\* path, as a token sequence), the handle it addresses (NoSandbox when none),
\* how it ended ("ok", "nonzero" for a command's non-zero exit, "raise") and
\* what it gave back: the output a command captured, the bytes a download
\* returned, the message of the exception a call raised.
Call(op, arg, h, res, out) == [op |-> op, arg |-> arg, h |-> h, res |-> res, out |-> out]

\* Line 57: f"manim_script_{uuid.uuid4()}.py"
ScriptFilename(u) == <<"manim_script_", u, ".py">>

\* Line 64, line 70 (the path), line 73 and line 81.
install_command == <<"pip install manim && manim-latex-downloader">>
UploadPath(fname) == <<"/home/daytona/">> \o fname
RenderCommand(fname) == <<"manim -pql /home/daytona/">> \o fname \o <<" EquationExplanation">>
\* Line 81 without its replace('.py', ''): the directory keeps the extension.
VideoPath_KeepExt(fname) ==
    <<"/home/daytona/media/videos/">> \o fname
        \o <<"/480p15/EquationExplanation.mp4">>
VideoPath(fname) ==
    <<"/home/daytona/media/videos/">> \o Remove(fname, ".py")
        \o <<"/480p15/EquationExplanation.mp4">>

\* ---------------------------------------------------------------- init
Init ==
    /\ DAYTONA_API_KEY \in EnvValues
    /\ GEMINI_API_KEY \in EnvValues
    /\ issued = 0
    /\ removed = {}
    /\ pc = [r \in Runs |-> "idle"]
    /\ req = [r \in Runs |-> NoRequest]
    /\ latex_equation = [r \in Runs |-> None]
    /\ explanations = [r \in Runs |-> None]
    /\ sandbox = [r \in Runs |-> NoSandbox]
    /\ manim_script_content = [r \in Runs |-> Unbound]
    /\ script_filename = [r \in Runs |-> Unbound]
    /\ video_content = [r \in Runs |-> None]
    /\ e = [r \in Runs |-> None]
    /\ raised = [r \in Runs |-> None]
    /\ wire = [r \in Runs |-> <<>>]
    /\ log = [r \in Runs |-> <<>>]
    /\ echo_pc = "idle"
    /\ echo_req = NoEchoRequest
    /\ content_length = 0
    /\ raw_body = EmptyBody
    /\ payload = EmptyBody
    /\ expression = JsonAbsent
    /\ status_code = 0
    /\ body = ""
    /\ echo_wire = <<>>
    /\ echo_raised = None

\* ---------------------------------------------------------------- control flow
TryStages == {"generate", "create", "install", "upload", "render", "download",
              "send200", "write200"}

\* The cleanup written before the download instead of in the finally block:
\* the sandbox is removed right after the render, then the video is fetched.
StageAfter_CleanupFirst(stage) ==
    CASE stage = "generate" -> "create"
      [] stage = "create"   -> "install"
      [] stage = "install"  -> "upload"
      [] stage = "upload"   -> "render"
      [] stage = "render"   -> "finally"
      [] stage = "finally"  -> "download"
      [] stage = "download" -> "send200"
      [] stage = "send200"  -> "write200"
      [] stage = "write200" -> "done"

\* The finally block's cleanup moved up, between the download and the
\* response.
StageAfter_RemoveBeforeRespond(stage) ==
    CASE stage = "generate" -> "create"
      [] stage = "create"   -> "install"
      [] stage = "install"  -> "upload"
      [] stage = "upload"   -> "render"
      [] stage = "render"   -> "download"
      [] stage = "download" -> "finally"
      [] stage = "finally"  -> "send200"
      [] stage = "send200"  -> "write200"
      [] stage = "write200" -> "done"
      [] OTHER -> "done"

\* The statement that follows one that ended normally: the try block's
\* statements in order (lines 54-88), the finally block after the last of
\* them, and the return of line 100 after the finally block.
StageAfter(stage) ==
    CASE stage = "generate" -> "create"
      [] stage = "create"   -> "install"
      [] stage = "install"  -> "upload"
      [] stage = "upload"   -> "render"
      [] stage = "render"   -> "download"
      [] stage = "download" -> "send200"
      [] stage = "send200"  -> "write200"
      [] stage = "write200" -> "finally"
      [] stage = "finally"  -> "done"

\* The cleanup written after the try statement instead of in a finally
\* block: an exception raised inside the except block skips it.
Handler_NoFinally(stage) ==
    IF stage \in TryStages THEN "except" ELSE "done"

\* The two exec calls wrapped in a try/except that passes: a command that
\* raises is ignored and the run goes on with the next stage.
Handler_ExecIgnored(stage) ==
    IF stage \in {"install", "render"} THEN StageAfter(stage)
    ELSE IF stage \in TryStages THEN "except"
    ELSE IF stage \in {"send500", "write500"} THEN "finally"
    ELSE "done"

\* A retry loop around the stages: a statement of the try block that raises
\* is run again.
Handler_Retry(stage) ==
    IF stage \in TryStages THEN stage
    ELSE IF stage \in {"send500", "write500"} THEN "finally"
    ELSE "done"

\* Where control goes when the statement at `stage` raises: the try block's
\* statements are caught by except (line 90); an exception raised inside the
\* except block runs the finally block (line 95) and then leaves do_POST;
\* anywhere else it leaves do_POST at once.
Handler(stage) ==
    IF stage \in TryStages THEN "except"
    ELSE IF stage \in {"send500", "write500"} THEN "finally"
    ELSE "done"

\* The statement at `stage` of run r raises an exception with message msg.
Throw(r, stage, msg) ==
    /\ pc' = [pc EXCEPT ![r] = Handler(stage)]
    /\ IF Handler(stage) = "except"
       THEN e' = [e EXCEPT ![r] = msg] /\ UNCHANGED raised
       ELSE raised' = [raised EXCEPT ![r] = msg] /\ UNCHANGED e

\* The statement at `stage` of the try block ends normally.
Proceed(r, stage) ==
    /\ pc' = [pc EXCEPT ![r] = StageAfter(stage)]
    /\ UNCHANGED <<e, raised>>

\* How a command that returned ended, for the log.
ExecRes(response) == IF response.exit_code = 0 THEN "ok" ELSE "nonzero"

\* Lines 66 and 75 never taking their branch: the exit code is ignored.
ExitFailed_Never(response) == FALSE

\* Line 66 and line 75: response.exit_code != 0.
ExitFailed(response) == response.exit_code # 0

\* Line 67 without the captured output in the message.
InstallError_NoOutput(response) == "Failed to install Manim"

\* Line 67 and line 76: the messages of the exceptions raised.
InstallError(response) == "Failed to install Manim: " \o response.result
RenderError(response) == "Manim rendering failed: " \o response.result

\* What sandbox.process.exec(..., timeout=300) raises when the command
\* outlives its 300 seconds or the call itself fails.
ExecRaised == "exec failed: timed out after 300 s"

\* The sandbox kept in a variable all runs share (a module global bound by
\* the latest create) instead of in do_POST's local.
Target_Shared(r) == issued

\* The sandbox lines 65-98 call: do_POST's local variable.
Target(r) == sandbox[r]

\* Line 97 without its test: remove is called whatever sandbox holds.
ShouldRemove_Always(sb) == TRUE

\* Line 97: if sandbox.
ShouldRemove(sb) == sb # NoSandbox

globals == <<DAYTONA_API_KEY, GEMINI_API_KEY>>
provider == <<issued, removed>>
locals == <<latex_equation, explanations, sandbox, manim_script_content,
           script_filename, video_content>>

\* Lines 85-87 announcing the video as JSON.
SuccessHead_Json == HeadItem(200, "application/json")

\* Lines 85-87: send_response(200) and the Content-type header.
SuccessHead == HeadItem(200, "video/mp4")

\* Lines 91-93 answering a pipeline failure as a client error.
ExceptHead_400 == HeadItem(400, "application/json")

\* Lines 91-93: send_response(500) and the Content-type header.
ExceptHead == HeadItem(500, "application/json")

\* ---------------------------------------------------------------- request intake
\* The runs whose request has arrived.
Started == {r \in Runs : pc[r] # "idle"}

\* A POST request arrives and run r's do_POST starts; r is the next run.
Arrive(r) ==
    /\ pc[r] = "idle"
    /\ \A q \in 1..(r - 1) : pc[q] # "idle"
    /\ \E q \in Requests : req' = [req EXCEPT ![r] = q]
    /\ pc' = [pc EXCEPT ![r] = "parse"]
    /\ UNCHANGED <<echo, globals, provider, locals, e, raised, wire, log>>

\* A request arrives, one of the MaxRequests that Spec serves: a single
\* worker takes its next request when do_POST has been left for the one
\* before.
Receive(r) ==
    /\ Cardinality(Started) < MaxRequests
    /\ \A q \in Started : pc[q] = "done"
    /\ Arrive(r)

\* Lines 36-41: read Content-Length, read and parse the body, take the fields.
Parse(r) ==
    /\ pc[r] = "parse"
    /\ IF ~req[r].hasLen
       THEN \* int(None) at line 36
            Throw(r, "parse", "TypeError") /\ UNCHANGED locals
       ELSE IF req[r].kind \in {"empty", "malformed"}
       THEN \* json.loads at line 38
            Throw(r, "parse", "JSONDecodeError") /\ UNCHANGED locals
       ELSE IF req[r].kind # "object"
       THEN \* data.get at line 40 on a value that is no dict
            Throw(r, "parse", "AttributeError") /\ UNCHANGED locals
       ELSE /\ latex_equation' = [latex_equation EXCEPT ![r] = DictGet(req[r].latex)]
            /\ explanations' = [explanations EXCEPT ![r] = DictGet(req[r].explanations)]
            /\ pc' = [pc EXCEPT ![r] = "validate"]
            /\ UNCHANGED <<sandbox, manim_script_content, script_filename,
                           video_content, e, raised>>
    /\ UNCHANGED <<echo, globals, provider, req, wire, log>>

\* Line 43, then lines 50-52 when the check passes.
Validate(r) ==
    /\ pc[r] = "validate"
    /\ IF ~AllTruthy(<<latex_equation[r], explanations[r], DAYTONA_API_KEY, GEMINI_API_KEY>>)
       THEN pc' = [pc EXCEPT ![r] = "send400"] /\ UNCHANGED sandbox
       ELSE /\ pc' = [pc EXCEPT ![r] = "generate"]
            /\ sandbox' = [sandbox EXCEPT ![r] = NoSandbox]
    /\ UNCHANGED <<echo, globals, provider, req, latex_equation, explanations,
                   manim_script_content, script_filename, video_content,
                   e, raised, wire, log>>

\* Lines 44-46: status 400 and headers, flushed by end_headers.
Send400(r) ==
    /\ pc[r] = "send400"
    /\ \/ /\ wire' = [wire EXCEPT ![r] = Append(@, HeadItem(400, "application/json"))]
          /\ pc' = [pc EXCEPT ![r] = "write400"]
          /\ UNCHANGED <<e, raised>>
       \/ Throw(r, "send400", "BrokenPipeError") /\ UNCHANGED wire
    /\ UNCHANGED <<echo, globals, provider, req, locals, log>>

\* Lines 47-48: the error body, then return.
Write400(r) ==
    /\ pc[r] = "write400"
    /\ \/ /\ wire' = [wire EXCEPT ![r] =
                        Append(@, BodyItem(JsonDumpsError("Missing required data or API keys.")))]
          /\ pc' = [pc EXCEPT ![r] = "done"]
          /\ UNCHANGED <<e, raised>>
       \/ Throw(r, "write400", "BrokenPipeError") /\ UNCHANGED wire
    /\ UNCHANGED <<echo, globals, provider, req, locals, log>>

\* ---------------------------------------------------------------- the try block
\* Lines 56-57: generate_manim_script (lines 12-32) calls the model once and
\* extracts the code; then the script's file name is drawn.
Generate(r) ==
    /\ pc[r] = "generate"
    /\ \/ \E text \in RawTexts, u \in Uuids :
            /\ manim_script_content' = [manim_script_content EXCEPT ![r] = ExtractCode(text)]
            /\ script_filename' = [script_filename EXCEPT ![r] = ScriptFilename(u)]
            /\ log' = [log EXCEPT ![r] = Append(@, Call("generate_content", <<>>, NoSandbox, "ok", ""))]
            /\ Proceed(r, "generate")
       \/ /\ log' = [log EXCEPT ![r] = Append(@, Call("generate_content", <<>>, NoSandbox, "raise", "model call failed"))]
          /\ Throw(r, "generate", "model call failed")
          /\ UNCHANGED <<manim_script_content, script_filename>>
    /\ UNCHANGED <<echo, globals, provider, req, latex_equation, explanations, sandbox,
                   video_content, wire>>

\* Lines 60-61: daytona.create returns a new handle, or raises.
Create(r) ==
    /\ pc[r] = "create"
    /\ \/ /\ issued' = issued + 1
          /\ sandbox' = [sandbox EXCEPT ![r] = issued + 1]
          /\ log' = [log EXCEPT ![r] = Append(@, Call("create", <<>>, issued + 1, "ok", ""))]
          /\ Proceed(r, "create")
       \/ /\ log' = [log EXCEPT ![r] = Append(@, Call("create", <<>>, NoSandbox, "raise", "sandbox create failed"))]
          /\ Throw(r, "create", "sandbox create failed")
          /\ UNCHANGED <<issued, sandbox>>
    /\ UNCHANGED <<echo, globals, removed, req, latex_equation, explanations,
                   manim_script_content, script_filename, video_content, wire>>

\* Lines 64-67: the install command; a non-zero exit code raises.
Install(r) ==
    /\ pc[r] = "install"
    /\ \/ \E response \in ExecResponses :
            /\ log' = [log EXCEPT ![r] = Append(@,
                         Call("exec", install_command, Target(r), ExecRes(response),
                              response.result))]
            /\ IF ExitFailed(response)
               THEN Throw(r, "install", InstallError(response))
               ELSE Proceed(r, "install")
       \/ /\ log' = [log EXCEPT ![r] = Append(@,
                       Call("exec", install_command, Target(r), "raise", ExecRaised))]
          /\ Throw(r, "install", ExecRaised)
    /\ UNCHANGED <<echo, globals, provider, req, locals, wire>>

\* Line 70: upload the script.
Upload(r) ==
    /\ pc[r] = "upload"
    /\ \/ /\ log' = [log EXCEPT ![r] = Append(@,
                       Call("upload_file", UploadPath(script_filename[r]), Target(r), "ok", ""))]
          /\ Proceed(r, "upload")
       \/ /\ log' = [log EXCEPT ![r] = Append(@,
                       Call("upload_file", UploadPath(script_filename[r]), Target(r), "raise",
                            "upload failed"))]
          /\ Throw(r, "upload", "upload failed")
    /\ UNCHANGED <<echo, globals, provider, req, locals, wire>>

\* Lines 73-76: the render command; a non-zero exit code raises.
Render(r) ==
    /\ pc[r] = "render"
    /\ \/ \E response \in ExecResponses :
            /\ log' = [log EXCEPT ![r] = Append(@,
                         Call("exec", RenderCommand(script_filename[r]), Target(r),
                              ExecRes(response), response.result))]
            /\ IF ExitFailed(response)
               THEN Throw(r, "render", RenderError(response))
               ELSE Proceed(r, "render")
       \/ /\ log' = [log EXCEPT ![r] = Append(@,
                       Call("exec", RenderCommand(script_filename[r]), Target(r), "raise",
                            ExecRaised))]
          /\ Throw(r, "render", ExecRaised)
    /\ UNCHANGED <<echo, globals, provider, req, locals, wire>>

\* Lines 81-82: download the video from the derived path.
Download(r) ==
    /\ pc[r] = "download"
    /\ \/ \E v \in Videos :
            /\ video_content' = [video_content EXCEPT ![r] = v]
            /\ log' = [log EXCEPT ![r] = Append(@,
                         Call("download_file", VideoPath(script_filename[r]), Target(r), "ok", v))]
            /\ Proceed(r, "download")
       \/ /\ log' = [log EXCEPT ![r] = Append(@,
                       Call("download_file", VideoPath(script_filename[r]), Target(r), "raise",
                            "download failed"))]
          /\ Throw(r, "download", "download failed")
          /\ UNCHANGED video_content
    /\ UNCHANGED <<echo, globals, provider, req, latex_equation, explanations, sandbox,
                   manim_script_content, script_filename, wire>>

\* Lines 85-87: status 200 and headers, flushed by end_headers.
Send200(r) ==
    /\ pc[r] = "send200"
    /\ \/ /\ wire' = [wire EXCEPT ![r] = Append(@, SuccessHead)]
          /\ Proceed(r, "send200")
       \/ Throw(r, "send200", "BrokenPipeError") /\ UNCHANGED wire
    /\ UNCHANGED <<echo, globals, provider, req, locals, log>>

\* Line 88: the video body.
Write200(r) ==
    /\ pc[r] = "write200"
    /\ \/ /\ wire' = [wire EXCEPT ![r] = Append(@, BodyItem(video_content[r]))]
          /\ Proceed(r, "write200")
       \/ Throw(r, "write200", "BrokenPipeError") /\ UNCHANGED wire
    /\ UNCHANGED <<echo, globals, provider, req, locals, log>>

\* ---------------------------------------------------------------- except and finally
\* Lines 90-93: the except block's status 500 and headers, flushed.
Send500(r) ==
    /\ pc[r] = "except"
    /\ \/ /\ wire' = [wire EXCEPT ![r] = Append(@, ExceptHead)]
          /\ pc' = [pc EXCEPT ![r] = "write500"]
          /\ UNCHANGED <<e, raised>>
       \/ Throw(r, "send500", "BrokenPipeError") /\ UNCHANGED wire
    /\ UNCHANGED <<echo, globals, provider, req, locals, log>>

\* Line 94: the error body, json.dumps({'error': str(e)}).
Write500(r) ==
    /\ pc[r] = "write500"
    /\ \/ /\ wire' = [wire EXCEPT ![r] = Append(@, BodyItem(JsonDumpsError(e[r])))]
          /\ pc' = [pc EXCEPT ![r] = "finally"]
          /\ UNCHANGED <<e, raised>>
       \/ Throw(r, "write500", "BrokenPipeError") /\ UNCHANGED wire
    /\ UNCHANGED <<echo, globals, provider, req, locals, log>>

\* Lines 95-100: the finally block removes the sandbox when there is one;
\* then do_POST returns, or the exception in flight leaves it.
Finally(r) ==
    /\ pc[r] = "finally"
    /\ IF ShouldRemove(sandbox[r])
       THEN \/ /\ removed' = removed \cup {Target(r)}
               /\ log' = [log EXCEPT ![r] = Append(@, Call("remove", <<>>, Target(r), "ok", ""))]
               /\ Proceed(r, "finally")
            \/ /\ log' = [log EXCEPT ![r] = Append(@,
                            Call("remove", <<>>, Target(r), "raise", "remove failed"))]
               /\ Throw(r, "finally", "remove failed")
               /\ UNCHANGED removed
       ELSE /\ Proceed(r, "finally")
            /\ UNCHANGED <<removed, log>>
    /\ UNCHANGED <<echo, globals, issued, req, locals, wire>>

\* ---------------------------------------------------------------- specification
\* One step of run r's do_POST.
Step(r) ==
    \/ Parse(r)
    \/ Validate(r)
    \/ Send400(r)
    \/ Write400(r)
    \/ Generate(r)
    \/ Create(r)
    \/ Install(r)
    \/ Upload(r)
    \/ Render(r)
    \/ Download(r)
    \/ Send200(r)
    \/ Write200(r)
    \/ Send500(r)
    \/ Write500(r)
    \/ Finally(r)

Next == \E r \in Runs : Receive(r) \/ Step(r)

Spec == Init /\ [][Next]_vars

\* Every call in do_POST blocks until it returns or raises, so a run that
\* has started keeps stepping until do_POST is left.
FairSpec == Spec /\ \A r \in Runs : WF_vars(Step(r))

\* Every run serves a request, and the runs are in flight together: one
\* blocking worker per request, nothing shared but the sandbox provider.
ConcNext == \E r \in Runs : Arrive(r) \/ Step(r)

ConcSpec == Init /\ [][ConcNext]_vars

\* ---------------------------------------------------------------- echo endpoint
\* Everything the generate-video handler reads or writes; index.py imports
\* nothing of it.
pipeline == <<globals, provider, pc, req, locals, e, raised, wire, log>>

\* len(raw bytes) of a posted body.
BodyLen(b) ==
    CASE b.kind = "empty" -> 0
      [] b.kind = "nonutf8" -> 1
      [] b.kind = "malformed" -> 8
      [] b.kind = "array" -> 3
      [] OTHER -> 20

\* Lines 9-13 of _send_json: the status line and headers as flushed by
\* end_headers; data holds the Content-Length header, str(len(body)).
EchoHead(status, b) ==
    [k |-> "head", status |-> status, ctype |-> "application/json; charset=utf-8",
     data |-> ToString(Len(b))]

\* json.dumps({"received": expression, "length": len(expression)}) for a
\* string expression (lines 42-47 and line 9).
EchoJson(x) ==
    "{\"received\": \"" \o x \o "\", \"length\": " \o ToString(Len(x)) \o "}"

\* do_POST is left by an exception nothing catches.
EchoRaise(exc) ==
    /\ echo_pc' = "done"
    /\ echo_raised' = exc

\* A POST request reaches the echo endpoint.
EchoReceive ==
    /\ echo_pc = "idle"
    /\ \E q \in EchoRequests : echo_req' = q
    /\ echo_pc' = "length"
    /\ UNCHANGED <<pipeline, content_length, raw_body, payload, expression,
                   status_code, body, echo_wire, echo_raised>>

\* Line 28: int(self.headers.get("content-length", "0")); int raises
\* ValueError on text that is not a number.
ReadLength ==
    /\ echo_pc = "length"
    /\ LET header == IF echo_req.len = Missing THEN "0" ELSE echo_req.len
       IN  IF header = "abc"
           THEN EchoRaise("ValueError") /\ UNCHANGED content_length
           ELSE /\ content_length' = IF header = "0" THEN 0 ELSE BodyLen(echo_req.body)
                /\ echo_pc' = "read"
                /\ UNCHANGED echo_raised
    /\ UNCHANGED <<pipeline, echo_req, raw_body, payload, expression,
                   status_code, body, echo_wire>>

\* Line 29: the body is read only when content_length is not zero.
ReadBody ==
    /\ echo_pc = "read"
    /\ raw_body' = IF content_length # 0 THEN echo_req.body ELSE EmptyBody
    /\ echo_pc' = "check"
    /\ UNCHANGED <<pipeline, echo_req, content_length, payload, expression,
                   status_code, body, echo_wire, echo_raised>>

\* Lines 31-33: an empty body is answered 400.
CheckBody ==
    /\ echo_pc = "check"
    /\ IF raw_body.kind = "empty"
       THEN /\ status_code' = 400
            /\ body' = "{\"error\": \"Empty request body\"}"
            /\ echo_pc' = "send_head"
       ELSE /\ echo_pc' = "loads"
            /\ UNCHANGED <<status_code, body>>
    /\ UNCHANGED <<pipeline, echo_req, content_length, raw_body, payload, expression,
                   echo_wire, echo_raised>>

\* Lines 35-39: decode raises UnicodeDecodeError, which the except clause
\* does not name; json.loads raises JSONDecodeError, answered 400.
Loads ==
    /\ echo_pc = "loads"
    /\ CASE raw_body.kind = "nonutf8" ->
              EchoRaise("UnicodeDecodeError") /\ UNCHANGED <<payload, status_code, body>>
         [] raw_body.kind = "malformed" ->
              /\ status_code' = 400
              /\ body' = "{\"error\": \"Invalid JSON payload\"}"
              /\ echo_pc' = "send_head"
              /\ UNCHANGED <<payload, echo_raised>>
         [] OTHER ->
              /\ payload' = raw_body
              /\ echo_pc' = "get"
              /\ UNCHANGED <<status_code, body, echo_raised>>
    /\ UNCHANGED <<pipeline, echo_req, content_length, raw_body, expression, echo_wire>>

\* Line 41: payload.get("expression", ""); a list has no get.
Get ==
    /\ echo_pc = "get"
    /\ IF payload.kind = "object"
       THEN /\ expression' = IF payload.expression = JsonAbsent THEN JsonStr("")
                             ELSE payload.expression
            /\ echo_pc' = "respond"
            /\ UNCHANGED echo_raised
       ELSE EchoRaise("AttributeError") /\ UNCHANGED expression
    /\ UNCHANGED <<pipeline, echo_req, content_length, raw_body, payload,
                   status_code, body, echo_wire>>

\* Lines 42-47 and line 9: len(expression) raises TypeError for null and
\* for a number; otherwise the payload is serialised with status 200.
Respond ==
    /\ echo_pc = "respond"
    /\ IF expression.t = "str"
       THEN /\ status_code' = 200
            /\ body' = EchoJson(expression.v)
            /\ echo_pc' = "send_head"
            /\ UNCHANGED echo_raised
       ELSE EchoRaise("TypeError") /\ UNCHANGED <<status_code, body>>
    /\ UNCHANGED <<pipeline, echo_req, content_length, raw_body, payload, expression,
                   echo_wire>>

\* Lines 10-13 of _send_json: status line and headers, flushed.
SendJsonHead ==
    /\ echo_pc = "send_head"
    /\ \/ /\ echo_wire' = Append(echo_wire, EchoHead(status_code, body))
          /\ echo_pc' = "send_body"
          /\ UNCHANGED echo_raised
       \/ EchoRaise("BrokenPipeError") /\ UNCHANGED echo_wire
    /\ UNCHANGED <<pipeline, echo_req, content_length, raw_body, payload, expression,
                   status_code, body>>

\* Line 14 of _send_json: the body; then do_POST returns.
SendJsonBody ==
    /\ echo_pc = "send_body"
    /\ \/ /\ echo_wire' = Append(echo_wire, BodyItem(body))
          /\ echo_pc' = "done"
          /\ UNCHANGED echo_raised
       \/ EchoRaise("BrokenPipeError") /\ UNCHANGED echo_wire
    /\ UNCHANGED <<pipeline, echo_req, content_length, raw_body, payload, expression,
                   status_code, body>>

EchoNext ==
    \/ EchoReceive
    \/ ReadLength
    \/ ReadBody
    \/ CheckBody
    \/ Loads
    \/ Get
    \/ Respond
    \/ SendJsonHead
    \/ SendJsonBody

\* The echo endpoint serving a request, the pipeline idle.
EchoSpec == Init /\ [][EchoNext]_vars

TypeOK ==
    /\ pc \in [Runs -> {"idle", "parse", "validate", "send400", "write400", "generate",
                        "create", "install", "upload", "render", "download", "send200",
                        "write200", "except", "write500", "finally", "done"}]
    /\ sandbox \in [Runs -> 0..issued]
    /\ removed \subseteq 1..issued
\* ---------------------------------------------------------------- reading a run
\* The positions of run r's log that hold a call of operation op.
CallsOf(r, op) == {i \in 1..Len(log[r]) : log[r][i].op = op}

\* daytona.create returned a handle to run r.
Provisioned(r) == \E i \in CallsOf(r, "create") : log[r][i].res = "ok"

\* daytona.remove has been invoked by run r.
RemoveCalled(r) == CallsOf(r, "remove") # {}

\* Run r's do_POST has been left, by return or by an exception.
Ended(r) == pc[r] = "done"

\* s is a prefix of t.
IsPrefix(s, t) == Len(s) <= Len(t) /\ SubSeq(t, 1, Len(s)) = s

\* The complete JSON error response with the given status and message.
ErrorResponse(status, msg) ==
    <<HeadItem(status, "application/json"), BodyItem(JsonDumpsError(msg))>>

\* ---------------------------------------------------------------- C1
\* C1: in every run daytona.remove is invoked at most once; it is never
\* invoked unless daytona.create has returned a handle (so not when script
\* generation or provisioning failed); and when do_POST has been left it has
\* been invoked exactly once if and only if a handle was provisioned,
\* whichever later stage failed.
C1_DestroyOnceIffProvisioned ==
    \A r \in Runs :
        /\ Cardinality(CallsOf(r, "remove")) <= 1
        /\ ~Provisioned(r) => ~RemoveCalled(r)
        /\ Ended(r) => (Cardinality(CallsOf(r, "remove")) = 1 <=> Provisioned(r))

\* A run that provisioned a sandbox, failed in a later stage, and was left
\* with remove invoked once.
C1_Witness ==
    \E r \in Runs :
        /\ Ended(r) /\ Provisioned(r)
        /\ \E i \in 1..Len(log[r]) : log[r][i].op = "download_file" /\ log[r][i].res = "raise"
        /\ Cardinality(CallsOf(r, "remove")) = 1

\* ---------------------------------------------------------------- C2
\* C2: once daytona.create has returned a handle, daytona.remove is
\* eventually invoked, on every exit path of do_POST (success, a failing
\* stage, an exception raised while the 200 or the 500 response is
\* written), and do_POST is never left with a provisioned handle that
\* remove was not invoked on.  Checked under FairSpec: every call returns
\* or raises.
C2_ProvisionedLeadsToDestroyed ==
    /\ \A r \in Runs : Provisioned(r) ~> RemoveCalled(r)
    /\ [](\A r \in Runs : (Ended(r) /\ Provisioned(r)) => RemoveCalled(r))

\* A run whose except block raised while writing the 500 response, and
\* which still invoked remove before it was left.
C2_Witness ==
    \E r \in Runs :
        /\ Ended(r) /\ Provisioned(r) /\ RemoveCalled(r)
        /\ e[r] # None
        /\ raised[r] = "BrokenPipeError"

\* ---------------------------------------------------------------- C3
\* C3: when daytona.remove raises, the exception does not leave do_POST:
\* the run returns normally, with the response it had written unchanged.
C3_DestroyFailureSwallowed ==
    \A r \in Runs :
        (Ended(r) /\ \E i \in CallsOf(r, "remove") : log[r][i].res = "raise")
            => raised[r] = None

\* ---------------------------------------------------------------- C4
\* The request of run r parsed to a JSON object, and a field or a
\* credential is missing or empty.
MissingInput(r) ==
    /\ req[r].kind = "object"
    /\ \/ ~Truthy(DictGet(req[r].latex))
       \/ ~Truthy(DictGet(req[r].explanations))
       \/ ~Truthy(DAYTONA_API_KEY)
       \/ ~Truthy(GEMINI_API_KEY)

\* C4: for a parsed request with latex or explanations missing or empty, or
\* with either credential absent, the run makes no remote call at all (no
\* model call, no provisioning, no destroy), and what it writes is the 400
\* response with a non-empty error field: nothing else reaches the client,
\* and the response is complete whenever do_POST returns (it is cut short
\* only when the write to the client itself raises).
C4_MissingInputRejected ==
    \A r \in Runs :
        MissingInput(r) =>
            /\ log[r] = <<>>
            /\ sandbox[r] = NoSandbox
            /\ IsPrefix(wire[r], ErrorResponse(400, "Missing required data or API keys."))
            /\ (Ended(r) /\ raised[r] = None) =>
                   /\ wire[r] = ErrorResponse(400, "Missing required data or API keys.")
                   /\ wire[r][2].data # JsonDumpsError("")

\* A run with both fields given and the sandbox credential unset, answered
\* by the complete 400 response.
C4_Witness ==
    \E r \in Runs :
        /\ Ended(r) /\ MissingInput(r)
        /\ Truthy(DictGet(req[r].latex)) /\ Truthy(DictGet(req[r].explanations))
        /\ DAYTONA_API_KEY = None
        /\ wire[r] = ErrorResponse(400, "Missing required data or API keys.")

\* ---------------------------------------------------------------- C5
\* C5: a request with an empty body is answered 400 with the error "Empty
\* request body", a body that is not JSON is answered 400 with the error
\* "Invalid JSON payload", and neither reaches the pipeline.
C5_EmptyOrMalformedBody400 ==
    \A r \in Runs :
        Ended(r) =>
            /\ req[r].kind = "empty" =>
                   wire[r] = ErrorResponse(400, "Empty request body") /\ log[r] = <<>>
            /\ req[r].kind = "malformed" =>
                   wire[r] = ErrorResponse(400, "Invalid JSON payload") /\ log[r] = <<>>
\* ---------------------------------------------------------------- C6
\* The positions of run r's wire that hold a status line with headers.
Heads(r) == {i \in 1..Len(wire[r]) : wire[r][i].k = "head"}

\* C6: the caller receives exactly one outcome per request: nothing follows
\* a 200 status line except its video body (no second status line, no error
\* payload), and do_POST is never left without one response having been
\* started.
C6_ExactlyOneOutcome ==
    \A r \in Runs :
        /\ \A i \in Heads(r) : \A j \in Heads(r) :
               (wire[r][i].status = 200 /\ i < j) => wire[r][j].status = 200
        /\ Ended(r) => Cardinality(Heads(r)) = 1

\* ---------------------------------------------------------------- C7
\* The place of a logged call in the order of the stages; 0 for remove.
StageIndex(c) ==
    CASE c.op = "generate_content" -> 1
      [] c.op = "create" -> 2
      [] c.op = "exec" /\ c.arg = install_command -> 3
      [] c.op = "upload_file" -> 4
      [] c.op = "exec" /\ c.arg # install_command -> 5
      [] c.op = "download_file" -> 6
      [] OTHER -> 0

\* C7: the stages are invoked in the order generate script, provision,
\* install, upload, render, download, respond: every stage call is preceded
\* by exactly the earlier stages, each of which succeeded, so nothing but
\* remove follows the first failure; and the 200 response is started only
\* after all six calls succeeded.
C7_StagesInOrder ==
    \A r \in Runs :
        /\ \A i \in 1..Len(log[r]) :
               log[r][i].op # "remove" =>
                   /\ StageIndex(log[r][i]) = i
                   /\ \A j \in 1..(i - 1) :
                          log[r][j].op # "remove" /\ log[r][j].res = "ok"
        /\ (\E i \in Heads(r) : wire[r][i].status = 200) =>
               /\ Len(log[r]) >= 6
               /\ \A i \in 1..6 : StageIndex(log[r][i]) = i /\ log[r][i].res = "ok"

\* A run whose render command exited non-zero: five stage calls, then remove
\* and nothing else.
C7_Witness ==
    \E r \in Runs :
        /\ Ended(r)
        /\ Len(log[r]) = 6
        /\ StageIndex(log[r][5]) = 5 /\ log[r][5].res = "nonzero"
        /\ log[r][6].op = "remove"

\* ---------------------------------------------------------------- C8
\* The complete 200 response carrying the given bytes.
VideoResponse(bytes) == <<HeadItem(200, "video/mp4"), BodyItem(bytes)>>

\* C8: remove never precedes a download call (no download is attempted
\* after remove), and in a run where every stage succeeded remove is
\* invoked after the successful download.
C8_DestroyAfterDownload ==
    \A r \in Runs :
        /\ \A i \in CallsOf(r, "remove") : \A j \in CallsOf(r, "download_file") : j < i
        /\ (Ended(r) /\ wire[r] = VideoResponse(video_content[r])) =>
               \E j \in CallsOf(r, "download_file") :
                   /\ log[r][j].res = "ok"
                   /\ \E i \in CallsOf(r, "remove") : j < i

\* A run where every stage succeeded and the video was sent: the download
\* is the sixth call and remove the seventh.
C8_Witness ==
    \E r \in Runs :
        /\ Ended(r)
        /\ wire[r] = VideoResponse(video_content[r])
        /\ Len(log[r]) = 7
        /\ log[r][6].op = "download_file" /\ log[r][6].res = "ok"
        /\ log[r][7].op = "remove"

\* ---------------------------------------------------------------- C9
\* The positions of run r's log where the install command exited non-zero.
InstallFailures(r) ==
    {i \in CallsOf(r, "exec") : log[r][i].arg = install_command /\ log[r][i].res = "nonzero"}

\* C9: when the install command returns a non-zero exit code, no upload,
\* render or download is ever invoked (only remove follows), the exception
\* handled carries "Failed to install Manim: " followed by the command's
\* captured output, what is written is the 500 JSON error response with
\* that message (complete once the except block has run without its write
\* raising, and nothing else ever reaches the client), and remove has been
\* invoked exactly once when do_POST is left.
C9_InstallFailure ==
    \A r \in Runs : \A i \in InstallFailures(r) :
        LET msg == "Failed to install Manim: " \o log[r][i].out IN
        /\ \A j \in 1..Len(log[r]) : j > i => log[r][j].op = "remove"
        /\ e[r] = msg
        /\ IsPrefix(wire[r], ErrorResponse(500, msg))
        /\ (pc[r] = "finally" /\ raised[r] = None) => wire[r] = ErrorResponse(500, msg)
        /\ (Ended(r) /\ raised[r] = None) => wire[r] = ErrorResponse(500, msg)
        /\ Ended(r) => Cardinality(CallsOf(r, "remove")) = 1

\* A run whose install command exited non-zero with output "err B", answered
\* by the complete 500 response embedding it, with remove invoked once.
C9_Witness ==
    \E r \in Runs : \E i \in InstallFailures(r) :
        /\ Ended(r)
        /\ log[r][i].out = "err B"
        /\ wire[r] = ErrorResponse(500, "Failed to install Manim: err B")
        /\ Cardinality(CallsOf(r, "remove")) = 1
        /\ Len(log[r]) = 4

\* ---------------------------------------------------------------- C10
\* The model call of run r raised, or the text it returned holds no code
\* once the fence markers are stripped.
NoScript(r) ==
    \/ \E i \in CallsOf(r, "generate_content") : log[r][i].res = "raise"
    \/ manim_script_content[r] = <<>>

\* C10: when the model call fails or returns no extractable content, the run
\* fails there: no sandbox is provisioned, nothing is uploaded or executed,
\* and the response is an error response.
C10_NoScriptFailsRun ==
    \A r \in Runs :
        NoScript(r) =>
            /\ CallsOf(r, "create") = {}
            /\ CallsOf(r, "upload_file") = {}
            /\ CallsOf(r, "exec") = {}
            /\ \A i \in Heads(r) : wire[r][i].status # 200

\* ---------------------------------------------------------------- C11
\* The six remote calls of the pipeline were all made by run r and all
\* succeeded.
AllStagesOk(r) ==
    /\ Len(log[r]) >= 6
    /\ \A i \in 1..6 : StageIndex(log[r][i]) = i /\ log[r][i].res = "ok"

\* C11: with valid input and credentials and every remote call succeeding,
\* the response is status 200 with Content-type video/mp4 and a body that
\* is exactly the bytes the download returned: once the try block has
\* ended without an exception, that and nothing else has reached the
\* client (an exception there can only come from writing the response).
C11_SuccessResponseIsDownload ==
    \A r \in Runs :
        (AllStagesOk(r) /\ e[r] = None /\ pc[r] \in {"finally", "done"}) =>
            /\ Len(wire[r]) = 2
            /\ wire[r][1].k = "head" /\ wire[r][1].status = 200
            /\ wire[r][1].ctype = "video/mp4"
            /\ wire[r][2].k = "body" /\ wire[r][2].data = log[r][6].out

\* A run that downloaded "mp4 B" and answered 200 with exactly those bytes.
C11_Witness ==
    \E r \in Runs :
        /\ Ended(r) /\ AllStagesOk(r) /\ raised[r] = None
        /\ log[r][6].out = "mp4 B"
        /\ wire[r] = <<HeadItem(200, "video/mp4"), BodyItem("mp4 B")>>

\* ---------------------------------------------------------------- C12
\* The positions of run r's log that hold a call of the k-th stage.
StageCalls(r, k) == {i \in 1..Len(log[r]) : StageIndex(log[r][i]) = k}

\* The positions of run r's log where a stage call failed.
Failures(r) ==
    {i \in 1..Len(log[r]) : log[r][i].op # "remove" /\ log[r][i].res # "ok"}

\* C12: no stage is retried: each of model call, provision, install,
\* upload, render and download is invoked at most once in a run; a failed
\* stage call is the run's last one but for remove; and the failure is
\* reported: the except block has it in hand and answers with status 500
\* (the answer is complete when the block ends without its write raising).
C12_NoRetry ==
    \A r \in Runs :
        /\ \A k \in 1..6 : Cardinality(StageCalls(r, k)) <= 1
        /\ \A i \in Failures(r) :
               /\ \A j \in 1..Len(log[r]) : j > i => log[r][j].op = "remove"
               /\ pc[r] \in {"except", "write500", "finally", "done"}
               /\ e[r] # None
               /\ \A h \in Heads(r) : wire[r][h].status = 500
               /\ (pc[r] \in {"finally", "done"} /\ raised[r] = None) =>
                      (Len(wire[r]) = 2 /\ wire[r][1].status = 500)

\* A run whose upload raised: four stage calls, each made once, then
\* remove, and a 500 answer.
C12_Witness ==
    \E r \in Runs :
        /\ Ended(r)
        /\ Len(log[r]) = 5
        /\ log[r][4].op = "upload_file" /\ log[r][4].res = "raise"
        /\ log[r][5].op = "remove"
        /\ Len(wire[r]) = 2 /\ wire[r][1].status = 500

\* ---------------------------------------------------------------- C13
\* The positions of run r's log where daytona.create returned a handle.
Creates(r) == {i \in CallsOf(r, "create") : log[r][i].res = "ok"}

\* The positions of run r's log that address a sandbox.
SandboxCalls(r) ==
    {i \in 1..Len(log[r]) :
        log[r][i].op \in {"exec", "upload_file", "download_file", "remove"}}

\* Every sandbox call of run r addresses a handle that an earlier create of
\* the same run returned.
OwnHandleOnly(r) ==
    \A i \in SandboxCalls(r) :
        \E c \in Creates(r) : c < i /\ log[r][c].h = log[r][i].h

\* No handle occurs in the calls of two runs, whether the runs overlap or
\* one follows the other.
NoHandleShared ==
    \A r \in Runs : \A s \in Runs \ {r} :
        \A i \in 1..Len(log[r]) : \A j \in 1..Len(log[s]) :
            log[r][i].h # NoSandbox => log[r][i].h # log[s][j].h

\* C13 as stated: every run provisions exactly one handle, addresses only
\* that handle, and no handle is addressed by two runs.
C13_ExactlyOneHandlePerRun ==
    /\ \A r \in Runs : Ended(r) => Cardinality(Creates(r)) = 1
    /\ \A r \in Runs : OwnHandleOnly(r)
    /\ NoHandleShared

\* C13 amended: across any interleaving of concurrent runs, each run
\* provisions at most one handle (create is called at most once, and a run
\* rejected at validation or failing at the model call or at create has
\* none), every exec/upload/download/remove call of a run addresses only
\* the handle that same run provisioned, and no handle is addressed by two
\* runs or reused by a later run.
C13_OwnHandleOnly ==
    /\ \A r \in Runs : Cardinality(CallsOf(r, "create")) <= 1
    /\ \A r \in Runs : OwnHandleOnly(r)
    /\ NoHandleShared

\* Two runs in flight at once, each holding a handle and each having
\* already addressed it.
C13_Witness ==
    \E r \in Runs : \E s \in Runs \ {r} :
        /\ pc[r] = "render" /\ pc[s] = "upload"
        /\ sandbox[r] # NoSandbox /\ sandbox[s] # NoSandbox
        /\ SandboxCalls(r) # {} /\ SandboxCalls(s) # {}

\* ---------------------------------------------------------------- C14
\* The message of the failure that the logged call c stands for: the
\* message of the exception the call raised, or, for a command that exited
\* non-zero, the message lines 67 and 76 build around its output.
FailureMessage(c) ==
    IF c.res = "raise" THEN c.out
    ELSE IF c.arg = install_command THEN "Failed to install Manim: " \o c.out
    ELSE "Manim rendering failed: " \o c.out

\* The 500 response carrying msg, written out.
Response500(msg) ==
    << [k |-> "head", status |-> 500, ctype |-> "application/json", data |-> ""],
       [k |-> "body", status |-> 0, ctype |-> "",
        data |-> "{\"error\": \"" \o msg \o "\"}"] >>

\* C14: a failure of the model call, provisioning, install, upload, render
\* or download yields status 500 with the JSON body {"error": <message>},
\* the message being that of the failure; never 200 or 400. What has
\* reached the client is at every moment a prefix of that response, and
\* all of it once the except block has ended without its write raising.
C14_StageFailureIs500 ==
    \A r \in Runs : \A i \in Failures(r) :
        /\ e[r] = FailureMessage(log[r][i])
        /\ IsPrefix(wire[r], Response500(FailureMessage(log[r][i])))
        /\ (pc[r] \in {"finally", "done"} /\ raised[r] = None) =>
               wire[r] = Response500(FailureMessage(log[r][i]))

\* A run whose render command exited non-zero with output "err A" and that
\* answered 500 with the message built from it.
C14_Witness ==
    \E r \in Runs :
        /\ Ended(r) /\ raised[r] = None
        /\ \E i \in Failures(r) : StageIndex(log[r][i]) = 5 /\ log[r][i].res = "nonzero"
        /\ wire[r] = Response500("Manim rendering failed: err A")

\* ---------------------------------------------------------------- C16
\* C16: within one run there is one generated name manim_script_<uuid>.py
\* such that the file uploaded is /home/daytona/<name>, the render command
\* is manim -pql on that same file, and the download path is the 480p15
\* output directory named after it without its extension.
C16_PathsFromOneFilename ==
    \A r \in Runs :
        (StageCalls(r, 4) \cup StageCalls(r, 5) \cup StageCalls(r, 6) # {}) =>
            \E u \in Uuids :
                /\ script_filename[r] = <<"manim_script_", u, ".py">>
                /\ \A i \in StageCalls(r, 4) :
                       log[r][i].arg = <<"/home/daytona/", "manim_script_", u, ".py">>
                /\ \A i \in StageCalls(r, 5) :
                       log[r][i].arg = <<"manim -pql /home/daytona/", "manim_script_", u,
                                         ".py", " EquationExplanation">>
                /\ \A i \in StageCalls(r, 6) :
                       log[r][i].arg = <<"/home/daytona/media/videos/", "manim_script_", u,
                                         "/480p15/EquationExplanation.mp4">>

\* A run that uploaded, rendered and downloaded.
C16_Witness ==
    \E r \in Runs :
        /\ StageCalls(r, 4) # {} /\ StageCalls(r, 5) # {} /\ StageCalls(r, 6) # {}
        /\ \E i \in StageCalls(r, 6) : log[r][i].res = "ok"

\* ---------------------------------------------------------------- C18
\* C18: every exec, upload_file and download_file call of a run addresses a
\* handle that an earlier create of the run returned and on which remove
\* has not been invoked; remove, when invoked, addresses such a handle too
\* and is the last call of the run.
C18_HandleUsedOnlyWhileLive ==
    \A r \in Runs :
        /\ \A i \in SandboxCalls(r) :
               /\ \E c \in Creates(r) : c < i /\ log[r][c].h = log[r][i].h
               /\ \A j \in CallsOf(r, "remove") : j >= i
        /\ \A j \in CallsOf(r, "remove") : j = Len(log[r])

\* A run that used its handle for all four sandbox calls and then removed it.
C18_Witness ==
    \E r \in Runs :
        /\ Ended(r) /\ Len(log[r]) = 7
        /\ log[r][7].op = "remove" /\ log[r][7].h = log[r][2].h
        /\ log[r][6].op = "download_file" /\ log[r][6].h = log[r][2].h

\* ---------------------------------------------------------------- C15
\* The positions of run r's log where an exec call raised: the command
\* outlived the 300 seconds of timeout=300.
TimedOut(r) == {i \in CallsOf(r, "exec") : log[r][i].res = "raise"}

\* After a command of run r timed out no later stage is called (only
\* remove follows), the answer is the 500 response with the exception's
\* message, and do_POST does not end without remove invoked.
TimeoutFailsStage(r) ==
    \A i \in TimedOut(r) :
        /\ \A j \in 1..Len(log[r]) : j > i => log[r][j].op = "remove"
        /\ IsPrefix(wire[r], Response500(log[r][i].out))
        /\ (pc[r] \in {"finally", "done"} /\ raised[r] = None) =>
               wire[r] = Response500(log[r][i].out)
        /\ Ended(r) => RemoveCalled(r)

\* C15: an install or render command that exceeds its 300-second bound
\* fails its stage: later stages are skipped, the caller gets the 500
\* response and the sandbox is removed before do_POST ends; and the run
\* does not hang in the stage: a run at install or render gets to the end
\* of do_POST.
C15_TimeoutFailsStage ==
    /\ [](\A r \in Runs : TimeoutFailsStage(r))
    /\ \A r \in Runs : (pc[r] \in {"install", "render"}) ~> Ended(r)

\* A run whose render command timed out after a successful install, ended
\* with the 500 response and the sandbox removed.
C15_Witness ==
    \E r \in Runs :
        /\ Ended(r) /\ raised[r] = None
        /\ \E i \in TimedOut(r) : StageIndex(log[r][i]) = 5
        /\ wire[r] = Response500(ExecRaised)
        /\ log[r][Len(log[r])].op = "remove"

\* ---------------------------------------------------------------- C19
\* What reached run r's client ends with a response body.
ResponseWritten(r) ==
    /\ Len(wire[r]) >= 2
    /\ wire[r][1].k = "head"
    /\ wire[r][Len(wire[r])].k = "body"

\* C19: remove is invoked only after the response has been written: at the
\* step that invokes it the 200 or 500 response is already with the client
\* (unless writing it failed, which leaves an exception in flight), and
\* nothing is written to the client by that step or after it.
C19_RespondBeforeDestroy ==
    [][\A r \in Runs :
          /\ (~RemoveCalled(r) /\ RemoveCalled(r)') =>
                 /\ pc[r] = "finally"
                 /\ raised[r] = None => ResponseWritten(r)
                 /\ wire'[r] = wire[r]
          /\ RemoveCalled(r) => wire'[r] = wire[r]]_vars

\* A run whose download raised, that answered 500 and then removed its
\* sandbox.
C19_Witness ==
    \E r \in Runs :
        /\ RemoveCalled(r) /\ Provisioned(r)
        /\ wire[r] = Response500("download failed")

\* ---------------------------------------------------------------- C17
\* The one response the echo endpoint owes to request q: 400 "Empty request
\* body" when Content-Length is absent or zero or the body is empty, 400
\* "Invalid JSON payload" when the body is not valid JSON, otherwise 200.
EchoOwedStatus(q) ==
    IF q.len \in {Missing, "0"} \/ q.body.kind = "empty" THEN 400
    ELSE IF q.body.kind \in {"nonutf8", "malformed"} THEN 400
    ELSE 200

EchoOwedBody(q) ==
    IF q.len \in {Missing, "0"} \/ q.body.kind = "empty"
    THEN "{\"error\": \"Empty request body\"}"
    ELSE IF q.body.kind \in {"nonutf8", "malformed"}
    THEN "{\"error\": \"Invalid JSON payload\"}"
    ELSE IF q.body.expression = JsonAbsent
    THEN "{\"received\": \"\", \"length\": 0}"
    ELSE IF q.body.expression = JsonStr("x+1")
    THEN "{\"received\": \"x+1\", \"length\": 3}"
    ELSE IF q.body.expression = JsonStr("")
    THEN "{\"received\": \"\", \"length\": 0}"
    ELSE "any"

\* C17: the echo endpoint's do_POST emits exactly one response for every
\* request (when it ends, unless the connection broke while writing): the
\* status and body owed to the request; and it touches no pipeline state.
C17_EchoOneResponse ==
    /\ (echo_pc = "done" /\ echo_raised # "BrokenPipeError") =>
           /\ Len(echo_wire) = 2
           /\ echo_wire[1].k = "head" /\ echo_wire[2].k = "body"
           /\ echo_wire[1].status = EchoOwedStatus(echo_req)
           /\ EchoOwedBody(echo_req) # "any" => echo_wire[2].data = EchoOwedBody(echo_req)
    /\ \A r \in Runs : pc[r] = "idle" /\ log[r] = <<>> /\ wire[r] = <<>>
    /\ issued = 0 /\ removed = {}
====
